---- MODULE Spec2Model ----
(***************************************************************************)
(* Width-switchable network (BaseNet over BasicBlocks with Permanent and   *)
(* Temporary downsamples) and the multi-process path sampler               *)
(* (ModelReplicator) of the Slimmable repository.                          *)
(*                                                                         *)
(* Width ratios are written in percent (0.5 is 50), so that                *)
(* int(ratio * planes) is (ratio * planes) \div 100.  Width indices are    *)
(* 0-based as in the source; TLA+ sequences are 1-based, hence the +1      *)
(* where an index selects an entry.                                        *)
(***************************************************************************)
EXTENDS Integers, Sequences, FiniteSets, TLC

VARIABLES
    \* ---- the width-switchable model (BaseNet) -------------------------
    partition,          \* args.partition, <<>> for None
    widthRatioList,     \* layer -> its candidate width ratios
    currIdx,            \* layer -> its current width index
    downsample,         \* block -> Downsample._downsample[0]
    residualFunc,       \* block -> Downsample.residualFunc
    baselineWidth,      \* BaseNet._baselineWidth, in insertion order
    origStateDict,      \* TRUE while the state-dict has its original layout
    call,               \* the last call made on the model and what it returned
    \* ---- _splitSamples as a function ----------------------------------
    splitIn,            \* [nSamples, gpuIDs], the input
    splitOut,           \* the returned nSamplesPerCopy, <<>> before the call
    \* ---- one loss() call of the ModelReplicator -----------------------
    gpuIDs,             \* regime.args.gpu
    nSamples,           \* the nSamples argument of loss()
    lossPc,             \* position of the coordinator in loss()
    nSamplesPerModel,   \* gpu -> number of samples assigned to its worker
    workerPc,           \* gpu -> position of the worker in lossPerReplication
    sampleIdx,          \* gpu -> number of completed iterations of the worker
    pathWidthIdx,       \* gpu -> current width indices of the worker's replica
    pathsHistoryDict,   \* gpu -> the worker's path-history trie
    pathsList,          \* gpu -> the paths the worker recorded
    srcWeights,         \* version of the source model's weights (in-place updates count up)
    epochWeights,       \* srcWeights when the snapshots were last taken
    modelStateDict,     \* gpu -> ModelReplicator._modelStateDict[gpu]
    poolArgs,           \* the tasks buildArgs made for the pool, in order
    procOf,             \* gpu -> the pool process that took the task of gpu, 0 for none
    replicaWeights,     \* gpu -> version of the weights the worker's replica was built from
    results,            \* what processResults received, <<>> before
    cModelWeights,      \* gpu -> the paths the replica's weights were trained on since they were cloned or restored
    iterStartWeights,   \* gpu -> the weights each finished iteration trained from, in order
    \* ---- FlopsLoss.forward as a function ------------------------------
    flopsLossIn,        \* [flopsList, linearLineParams, modelFlops], the input
    flopsLossOut,       \* what forward returned or raised, <<>> before the call
    \* ---- the epoch loop of initialWeightsTraining ----------------------
    optimal_epochs,     \* args.optimal_epochs
    epoch,              \* the epoch counter of the loop
    nEpochsOptimum,     \* epochs the current optimum has not changed
    trainPc,            \* "idle", "loop" at the loop test, "done" after the loop
    isBestHistory,      \* is_best of every epoch run, in order
    \* ---- _updateAlphasGradients as a function --------------------------
    gradIn,             \* [nSamples, lossDictsPartitionList], the input
    gradOut             \* what the call computed or raised, <<>> before the call

netVars == <<partition, widthRatioList, currIdx, downsample, residualFunc,
             baselineWidth, origStateDict, call>>
splitVars == <<splitIn, splitOut>>
weightVars == <<srcWeights, epochWeights, modelStateDict>>
poolVars == <<poolArgs, procOf, replicaWeights, results>>
replicaVars == <<cModelWeights, iterStartWeights>>
repVars == <<gpuIDs, nSamples, lossPc, nSamplesPerModel, workerPc, sampleIdx,
             pathWidthIdx, pathsHistoryDict, pathsList, weightVars, poolVars, replicaVars>>
flopsVars == <<flopsLossIn, flopsLossOut>>
trainVars == <<optimal_epochs, epoch, nEpochsOptimum, trainPc, isBestHistory>>
gradVars == <<gradIn, gradOut>>
regimeVars == <<trainVars, gradVars>>
vars == <<netVars, splitVars, repVars, flopsVars, regimeVars>>

(***************************************************************************)
(* Bounds                                                                  *)
(***************************************************************************)
\* number of width ratios in args.width
NWidths == 2

\* longest list of ratios handed to buildHomogeneousWidthIdx
MaxRatios == 2

(***************************************************************************)
(* The network: Input(3) followed by BasicBlocks                           *)
(***************************************************************************)
\* out_planes of the BasicBlocks, in order
blocksPlanes == <<16, 16>>

InputChannels == 3

NBlocks == Len(blocksPlanes)

Blocks == 1..NBlocks

\* args.width in percent
argsWidth == [i \in 1..NWidths |-> (100 * i) \div NWidths]

conv1(b) == <<b, "conv1">>

conv2(b) == <<b, "conv2">>

downsampleSrc(b) == <<b, "downsampleSrc">>

InputLayer == <<0, "Input">>

\* prevLayer handed to block b: the Input, then each block's outputLayer()
BlockPrevLayer(b) == IF b = 1 THEN InputLayer ELSE conv2(b - 1)

\* out_planes of a layer
OutPlanes(l) == IF l = InputLayer THEN InputChannels ELSE blocksPlanes[l[1]]

\* in_planes of block b: prevLayer.outputChannels()
InPlanes(b) == OutPlanes(BlockPrevLayer(b))

\* the downsample class BasicBlock chooses for block b
DownsampleClass(b) ==
    IF InPlanes(b) = blocksPlanes[b] THEN "TempDownsample" ELSE "PermanentDownsample"

\* BasicBlock.getOptimizationLayers
BasicBlock_getOptimizationLayers(b) == <<conv1(b), conv2(b)>>

\* BasicBlock.getCountersLayers
BasicBlock_getCountersLayers(b) == <<conv1(b), downsampleSrc(b), conv2(b)>>

RECURSIVE optimizationUpTo(_)
\* Layers._buildLayersList with getOptimizationLayers, over blocks 1..b
optimizationUpTo(b) ==
    IF b = 0 THEN <<>>
    ELSE optimizationUpTo(b - 1) \o BasicBlock_getOptimizationLayers(b)

RECURSIVE forwardCountersUpTo(_)
\* Layers._buildLayersList with getCountersLayers, over blocks 1..b
forwardCountersUpTo(b) ==
    IF b = 0 THEN <<>>
    ELSE forwardCountersUpTo(b - 1) \o BasicBlock_getCountersLayers(b)

\* Layers.optimization()
optimization == optimizationUpTo(NBlocks)

\* Layers.forwardCounters()
forwardCounters == forwardCountersUpTo(NBlocks)

Range(s) == {s[i] : i \in 1..Len(s)}

AllLayers == Range(forwardCounters)

\* BaseNet.nLayers
nLayers == Len(optimization)

(***************************************************************************)
(* Width-indexed layers.  A model state n is a record                      *)
(*   wr  : layer -> width ratio list      idx : layer -> current index     *)
(*   ds  : block -> "None" or "downsampleSrc"                              *)
(*   res : block -> "standardResidual" or "downsampleResidual"             *)
(***************************************************************************)
\* kernel size of the block convolutions (ResNet18_Cifar)
ConvKernel == 3

\* kernel size of the downsample convolution
DownsampleKernel == 1

IsDownsampleSrc(l) == l[2] = "downsampleSrc"

\* layer.nWidths()
nWidths(n, l) == Len(n.wr[l])

\* layer.widthRatioByIdx(idx)
widthRatioByIdx(n, l, i) == n.wr[l][i + 1]

\* layer.currWidthIdx()
Layer_currWidthIdx(n, l) == n.idx[l]

\* layer.currWidthRatio()
Layer_currWidthRatio(n, l) == widthRatioByIdx(n, l, n.idx[l])

\* number of channels of layer l at width ratio r: int(r * out_planes)
WidthOf(l, r) == (r * OutPlanes(l)) \div 100

\* layer.currWidth(); the Input has its fixed number of channels
Layer_currWidth(n, l) ==
    IF l = InputLayer THEN InputChannels ELSE WidthOf(l, Layer_currWidthRatio(n, l))

\* layer.setCurrWidthIdx(idx)
Layer_setCurrWidthIdx(n, l, i) == [n EXCEPT !.idx[l] = i]

\* layer.addWidth(widthRatio): one more candidate width, in last position
Layer_addWidth(n, l, r) == [n EXCEPT !.wr[l] = Append(@, r)]

\* in_planes of a layer
LayerInPlanes(l) == IF l[2] = "conv2" THEN blocksPlanes[l[1]] ELSE InPlanes(l[1])

\* layer.countFlops(): the FLOPs recorded for the layer's current width ratio
Layer_countFlops(n, l) ==
    LET k == IF IsDownsampleSrc(l) THEN DownsampleKernel ELSE ConvKernel
    IN  k * k * LayerInPlanes(l) * Layer_currWidth(n, l)

(***************************************************************************)
(* Downsample, PermanentDownsample, TempDownsample, BasicBlock             *)
(***************************************************************************)
\* PermanentDownsample.initCurrentDownsample
PermanentDownsample_initCurrentDownsample == "downsampleSrc"

\* PermanentDownsample.initResidual
PermanentDownsample_initResidual == "downsampleResidual"

\* TempDownsample.initCurrentDownsample
TempDownsample_initCurrentDownsample == "None"

\* TempDownsample.initResidual
TempDownsample_initResidual == "standardResidual"

\* Downsample.downsample()
Downsample_downsample(n, b) == n.ds[b]

\* getFlopsLayers that forgets that the downsample may be None
Downsample_getFlopsLayers_Always(n, b) == <<downsampleSrc(b)>>

\* Downsample.getFlopsLayers
Downsample_getFlopsLayers(n, b) ==
    IF Downsample_downsample(n, b) = "None" THEN <<>> ELSE <<downsampleSrc(b)>>

\* updateCurrWidth that takes the index of conv1 instead of conv2
PermanentDownsample_updateCurrWidth_Conv1(n, b) ==
    Layer_setCurrWidthIdx(n, downsampleSrc(b), Layer_currWidthIdx(n, conv1(b)))

\* PermanentDownsample.updateCurrWidth
PermanentDownsample_updateCurrWidth(n, b) ==
    Layer_setCurrWidthIdx(n, downsampleSrc(b), Layer_currWidthIdx(n, conv2(b)))

\* updateCurrWidth that writes the downsample's index onto conv2
TempDownsample_updateCurrWidth_Reversed(n, b) ==
    LET n1 == Layer_setCurrWidthIdx(n, conv2(b), Layer_currWidthIdx(n, downsampleSrc(b)))
        n2 == [n1 EXCEPT !.res[b] = TempDownsample_initResidual,
                         !.ds[b] = TempDownsample_initCurrentDownsample]
    IN  IF Layer_currWidth(n2, BlockPrevLayer(b)) # Layer_currWidth(n2, conv2(b))
        THEN [n2 EXCEPT !.res[b] = "downsampleResidual", !.ds[b] = "downsampleSrc"]
        ELSE n2

\* updateCurrWidth that compares width indices instead of widths
TempDownsample_updateCurrWidth_ByIdx(n, b) ==
    LET n1 == Layer_setCurrWidthIdx(n, downsampleSrc(b), Layer_currWidthIdx(n, conv2(b)))
        n2 == [n1 EXCEPT !.res[b] = TempDownsample_initResidual,
                         !.ds[b] = TempDownsample_initCurrentDownsample]
        prevIdx == IF BlockPrevLayer(b) = InputLayer THEN -1
                   ELSE Layer_currWidthIdx(n2, BlockPrevLayer(b))
    IN  IF prevIdx # Layer_currWidthIdx(n2, conv2(b))
        THEN [n2 EXCEPT !.res[b] = "downsampleResidual", !.ds[b] = "downsampleSrc"]
        ELSE n2

\* updateCurrWidth that never drops a downsample it has once switched on
TempDownsample_updateCurrWidth_Sticky(n, b) ==
    LET n1 == Layer_setCurrWidthIdx(n, downsampleSrc(b), Layer_currWidthIdx(n, conv2(b)))
        prevWidth == Layer_currWidth(n1, BlockPrevLayer(b))
        conv2Width == Layer_currWidth(n1, conv2(b))
    IN  IF prevWidth # conv2Width
        THEN [n1 EXCEPT !.res[b] = "downsampleResidual", !.ds[b] = "downsampleSrc"]
        ELSE n1

\* TempDownsample.updateCurrWidth
TempDownsample_updateCurrWidth(n, b) ==
    LET n1 == Layer_setCurrWidthIdx(n, downsampleSrc(b), Layer_currWidthIdx(n, conv2(b)))
        n2 == [n1 EXCEPT !.res[b] = TempDownsample_initResidual,
                         !.ds[b] = TempDownsample_initCurrentDownsample]
        prevWidth == Layer_currWidth(n2, BlockPrevLayer(b))
        conv2Width == Layer_currWidth(n2, conv2(b))
    IN  IF prevWidth # conv2Width
        THEN [n2 EXCEPT !.res[b] = "downsampleResidual", !.ds[b] = "downsampleSrc"]
        ELSE n2

\* BasicBlock.updateCurrWidth
BasicBlock_updateCurrWidth(n, b) ==
    IF DownsampleClass(b) = "TempDownsample"
    THEN TempDownsample_updateCurrWidth(n, b)
    ELSE PermanentDownsample_updateCurrWidth(n, b)

\* BasicBlock.getFlopsLayers
BasicBlock_getFlopsLayers(n, b) ==
    <<conv1(b)>> \o Downsample_getFlopsLayers(n, b) \o <<conv2(b)>>

RECURSIVE SumFlops(_, _)
\* sum([layer.countFlops() for layer in layers])
SumFlops(n, layers) ==
    IF layers = <<>> THEN 0
    ELSE Layer_countFlops(n, Head(layers)) + SumFlops(n, Tail(layers))

\* BasicBlock.countFlops
BasicBlock_countFlops(n, b) == SumFlops(n, BasicBlock_getFlopsLayers(n, b))

(***************************************************************************)
(* BaseNet                                                                 *)
(***************************************************************************)
RECURSIVE BlocksCountFlops(_, _)
BlocksCountFlops(n, b) ==
    IF b = 0 THEN 0 ELSE BlocksCountFlops(n, b - 1) + BasicBlock_countFlops(n, b)

\* BaseNet.countFlops
BaseNet_countFlops(n) == BlocksCountFlops(n, NBlocks)

\* BaseNet.currWidthIdx
BaseNet_currWidthIdx(n) == [k \in 1..nLayers |-> Layer_currWidthIdx(n, optimization[k])]

\* BaseNet.currWidthRatio
BaseNet_currWidthRatio(n) == [k \in 1..nLayers |-> Layer_currWidthRatio(n, optimization[k])]

RECURSIVE SetLayersWidthIdx(_, _, _)
\* for layer, idx in zip(optimization, idxList): layer.setCurrWidthIdx(idx), first k pairs
SetLayersWidthIdx(n, idxList, k) ==
    IF k = 0 THEN n
    ELSE Layer_setCurrWidthIdx(SetLayersWidthIdx(n, idxList, k - 1), optimization[k], idxList[k])

RECURSIVE UpdateBlocksCurrWidth(_, _)
\* for block in blocks: block.updateCurrWidth(), blocks 1..b in order
UpdateBlocksCurrWidth(n, b) ==
    IF b = 0 THEN n
    ELSE BasicBlock_updateCurrWidth(UpdateBlocksCurrWidth(n, b - 1), b)

\* setCurrWidthIdx that updates the blocks before it writes the layers
BaseNet_setCurrWidthIdx_UpdateFirst(n, idxList) ==
    SetLayersWidthIdx(UpdateBlocksCurrWidth(n, NBlocks), idxList, nLayers)

\* BaseNet.setCurrWidthIdx, for len(idxList) = number of optimization layers
BaseNet_setCurrWidthIdx(n, idxList) ==
    UpdateBlocksCurrWidth(SetLayersWidthIdx(n, idxList, nLayers), NBlocks)

\* the reserved baseline key 'Partition'
partitionKey == [kind |-> "Partition", ratio |-> 0]

\* a width ratio as a baseline key
ratioKey(r) == [kind |-> "ratio", ratio |-> r]

RECURSIVE ApplyOnBaselineLoop(_, _, _)
\* the loop of applyOnBaseline over the first k entries, func = countFlops:
\* the model state reached and the results collected, in insertion order
ApplyOnBaselineLoop(n, bw, k) ==
    IF k = 0 THEN [net |-> n, results |-> <<>>]
    ELSE LET prev == ApplyOnBaselineLoop(n, bw, k - 1)
             n1 == BaseNet_setCurrWidthIdx(prev.net, bw[k].idxList)
         IN  [net |-> n1,
              results |-> Append(prev.results,
                                 [key |-> bw[k].key, value |-> BaseNet_countFlops(n1)])]

\* applyOnBaseline that does not set the saved width indices back
BaseNet_applyOnBaseline_NoRestore(n, bw, restoreOrgStateFlag) ==
    LET looped == ApplyOnBaselineLoop(n, bw, Len(bw))
    IN  [net |-> looped.net, results |-> looped.results, restored |-> restoreOrgStateFlag]

\* BaseNet.applyOnBaseline(countFlops, restoreOrgStateFlag) on baseline dict bw:
\* the model state on return, the returned results and whether
\* restoreOriginalStateDictStructure was called
BaseNet_applyOnBaseline(n, bw, restoreOrgStateFlag) ==
    LET modelCurrWidthIdx == BaseNet_currWidthIdx(n)
        looped == ApplyOnBaselineLoop(n, bw, Len(bw))
    IN  [net |-> BaseNet_setCurrWidthIdx(looped.net, modelCurrWidthIdx),
         results |-> looped.results,
         restored |-> restoreOrgStateFlag]

\* BaseNet.calcBaselineFlops
BaseNet_calcBaselineFlops(n, bw, restoreOrgStateFlag) ==
    BaseNet_applyOnBaseline(n, bw, restoreOrgStateFlag)

(***************************************************************************)
(* Construction: initBlocks, _addPartitionFlops, _buildBaselineWidthDict   *)
(***************************************************************************)
\* the width ratio list initBlocks gives the layers of block b
layerWidthRatioList(part, b) ==
    argsWidth \o (IF part # <<>> THEN <<part[b]>> ELSE <<>>)

\* the model as initBlocks leaves it
InitBlocks(part) ==
    [wr  |-> [l \in AllLayers |-> layerWidthRatioList(part, l[1])],
     idx |-> [l \in AllLayers |-> 0],
     ds  |-> [b \in Blocks |-> IF DownsampleClass(b) = "TempDownsample"
                               THEN TempDownsample_initCurrentDownsample
                               ELSE PermanentDownsample_initCurrentDownsample],
     res |-> [b \in Blocks |-> IF DownsampleClass(b) = "TempDownsample"
                               THEN TempDownsample_initResidual
                               ELSE PermanentDownsample_initResidual]]

\* layer.widthRatioIdx(ratio): index of the exact ratio (-1 stands for the failed assertion)
widthRatioIdx(n, l, r) ==
    IF \E i \in 1..Len(n.wr[l]) : n.wr[l][i] = r
    THEN (CHOOSE i \in 1..Len(n.wr[l]) :
             /\ n.wr[l][i] = r
             /\ \A j \in 1..(i - 1) : n.wr[l][j] # r) - 1
    ELSE -1

RECURSIVE BuildHomogeneousLoop(_, _, _)
\* the loop of buildHomogeneousWidthIdx over the first k ratios of widthRatioList
BuildHomogeneousLoop(n, widthRatios, k) ==
    IF k = 0 THEN <<>>
    ELSE LET prev == BuildHomogeneousLoop(n, widthRatios, k - 1)
             r == widthRatios[k]
         IN  IF \E j \in 1..Len(prev) : prev[j].key = ratioKey(r)
             THEN prev
             ELSE Append(prev, [key |-> ratioKey(r),
                                idxList |-> [m \in 1..nLayers |->
                                               widthRatioIdx(n, optimization[m], r)]])

\* buildHomogeneousWidthIdx that looks every ratio up in the first optimization layer only
BaseNet_buildHomogeneousWidthIdx_FirstLayer(n, widthRatios) ==
    LET built == BuildHomogeneousLoop(n, widthRatios, Len(widthRatios))
    IN  [j \in 1..Len(built) |->
            [built[j] EXCEPT !.idxList =
                [m \in 1..nLayers |-> widthRatioIdx(n, optimization[1], built[j].key.ratio)]]]

\* BaseNet.buildHomogeneousWidthIdx
BaseNet_buildHomogeneousWidthIdx(n, widthRatios) ==
    BuildHomogeneousLoop(n, widthRatios, Len(widthRatios))

RECURSIVE AddPartitionWidths(_, _, _)
\* for layer, p in zip(layersList, partition): layer.addWidth(p), first k pairs
AddPartitionWidths(n, part, k) ==
    IF k = 0 THEN n
    ELSE Layer_addWidth(AddPartitionWidths(n, part, k - 1), optimization[k], part[k])

RECURSIVE AddExtraWidths(_, _, _)
\* the extra 0.0 width of the forward-counter layers that have fewer widths, first k layers
AddExtraWidths(n, nWidthNew, k) ==
    IF k = 0 THEN n
    ELSE LET n1 == AddExtraWidths(n, nWidthNew, k - 1)
             l == forwardCounters[k]
         IN  IF nWidths(n1, l) < nWidthNew THEN Layer_addWidth(n1, l, 0) ELSE n1

\* partition path indices that point at every layer's first width
partitionPathIndices_First(n) == [k \in 1..nLayers |-> 0]

\* partitionPathIndices of _addPartitionFlops
partitionPathIndices(n) == [k \in 1..nLayers |-> nWidths(n, optimization[k]) - 1]

\* BaseNet._addPartitionFlops for a supplied partition of the right length:
\* the model on return and self._baselineWidth
BaseNet_addPartitionFlops(n, part) ==
    LET n1 == AddPartitionWidths(n, part, nLayers)
        nWidthNew == nWidths(n1, optimization[nLayers])
        n2 == AddExtraWidths(n1, nWidthNew, Len(forwardCounters))
        bw == <<[key |-> partitionKey, idxList |-> partitionPathIndices(n2)]>>
    IN  [net |-> BaseNet_calcBaselineFlops(n2, bw, FALSE).net, baselineWidth |-> bw]

\* _buildBaselineWidthDict whose index lists are all one index too high
BaseNet_buildBaselineWidthDict_OffByOne(n, part, flopsGiven) ==
    LET added == IF part # <<>> THEN BaseNet_addPartitionFlops(n, part)
                 ELSE [net |-> n, baselineWidth |-> <<>>]
        bw == BaseNet_buildHomogeneousWidthIdx(added.net, argsWidth) \o added.baselineWidth
    IN  [net |-> added.net,
         baselineWidth |-> [j \in 1..Len(bw) |->
                               [bw[j] EXCEPT !.idxList = [k \in 1..nLayers |-> @[k] + 1]]]]

\* BaseNet._buildBaselineWidthDict: the model on return and self._baselineWidth;
\* flopsGiven says that args holds precomputed baseline FLOPs
BaseNet_buildBaselineWidthDict(n, part, flopsGiven) ==
    LET added == IF part # <<>> THEN BaseNet_addPartitionFlops(n, part)
                 ELSE [net |-> n, baselineWidth |-> <<>>]
        bw == BaseNet_buildHomogeneousWidthIdx(added.net, argsWidth) \o added.baselineWidth
    IN  [net |-> IF flopsGiven THEN added.net
                 ELSE BaseNet_calcBaselineFlops(added.net, bw, TRUE).net,
         baselineWidth |-> bw]

\* args.baselineFlops as _buildBaselineWidthDict computes it when args holds
\* none (and so no partition): countFlops() per baseline key, in order
computedBaselineFlops ==
    LET n == InitBlocks(<<>>)
    IN  BaseNet_calcBaselineFlops(n, BaseNet_buildHomogeneousWidthIdx(n, argsWidth), TRUE).results

\* BaseNet.__init__
BaseNet_init(part, flopsGiven) ==
    BaseNet_buildBaselineWidthDict(InitBlocks(part), part, flopsGiven)

(***************************************************************************)
(* The model as a state machine: calls on a constructed BaseNet            *)
(***************************************************************************)
\* the partitions a model is constructed with (<<>> is no partition)
Partitions == {<<>>, <<50, 100, 50, 50>>, <<25, 75, 50, 75>>}

\* the model state held in the variables
Net == [wr |-> widthRatioList, idx |-> currIdx, ds |-> downsample, res |-> residualFunc]

SetNet(n) ==
    /\ widthRatioList' = n.wr
    /\ currIdx' = n.idx
    /\ downsample' = n.ds
    /\ residualFunc' = n.res

\* index lists of the right length with every entry in range for its layer
ValidIdxLists ==
    {idxList \in [1..nLayers -> 0..(NWidths + 1)] :
        \A k \in 1..nLayers : idxList[k] < nWidths(Net, optimization[k])}

NoCall == [op |-> "init", idxList |-> <<>>, flag |-> FALSE, block |-> 0,
           wasActive |-> FALSE, pre |-> <<>>, results |-> <<>>, raised |-> "none"]

NetInit ==
    \E part \in Partitions, flopsGiven \in BOOLEAN :
        /\ part # <<>> => flopsGiven
        /\ partition = part
        /\ LET built == BaseNet_init(part, flopsGiven)
           IN  /\ widthRatioList = built.net.wr
               /\ currIdx = built.net.idx
               /\ downsample = built.net.ds
               /\ residualFunc = built.net.res
               /\ baselineWidth = built.baselineWidth
        /\ origStateDict = TRUE
        /\ call = NoCall

\* model.setCurrWidthIdx(idxList)
SetCurrWidthIdx(idxList) ==
    /\ SetNet(BaseNet_setCurrWidthIdx(Net, idxList))
    /\ call' = [NoCall EXCEPT !.op = "setCurrWidthIdx", !.idxList = idxList]
    /\ UNCHANGED <<partition, baselineWidth, origStateDict>>

\* model.applyOnBaseline(model.countFlops, restoreOrgStateFlag)
ApplyOnBaseline(restoreOrgStateFlag) ==
    LET ret == BaseNet_applyOnBaseline(Net, baselineWidth, restoreOrgStateFlag)
    IN  /\ SetNet(ret.net)
        /\ origStateDict' = (ret.restored \/ origStateDict)
        /\ call' = [NoCall EXCEPT !.op = "applyOnBaseline", !.flag = restoreOrgStateFlag,
                                  !.pre = BaseNet_currWidthIdx(Net),
                                  !.results = ret.results]
        /\ UNCHANGED <<partition, baselineWidth>>

\* model.generatePathBNs(srcLayer): the state-dict no longer has its original layout
GeneratePathBNs ==
    /\ origStateDict' = FALSE
    /\ call' = [NoCall EXCEPT !.op = "generatePathBNs"]
    /\ UNCHANGED <<partition, widthRatioList, currIdx, downsample, residualFunc,
                   baselineWidth>>

(***************************************************************************)
(* Calls on the layers and blocks themselves                               *)
(***************************************************************************)
\* layer.setCurrWidthIdx(i) on an optimization layer, i in range
LayerSetCurrWidthIdx(l, i) ==
    /\ i < nWidths(Net, l)
    /\ SetNet(Layer_setCurrWidthIdx(Net, l, i))
    /\ call' = [NoCall EXCEPT !.op = "layer.setCurrWidthIdx"]
    /\ UNCHANGED <<partition, baselineWidth, origStateDict>>

\* block.updateCurrWidth()
BlockUpdateCurrWidth(b) ==
    /\ SetNet(BasicBlock_updateCurrWidth(Net, b))
    /\ call' = [NoCall EXCEPT !.op = "updateCurrWidth", !.block = b,
                              !.wasActive = (downsample[b] # "None")]
    /\ UNCHANGED <<partition, baselineWidth, origStateDict>>

(***************************************************************************)
(* Calls with malformed arguments: what is raised, and the model left      *)
(***************************************************************************)
\* layer.setCurrWidthIdx(i) raises IndexError for an index out of range
Layer_idxOutOfRange(n, l, i) == i < 0 \/ i >= nWidths(n, l)

\* setCurrWidthIdx without the length assertion: zip stops at the shorter list
BaseNet_setCurrWidthIdx_NoAssert(n, idxList) ==
    LET k == IF Len(idxList) < nLayers THEN Len(idxList) ELSE nLayers
        bad == {j \in 1..k : Layer_idxOutOfRange(n, optimization[j], idxList[j])}
    IN  IF bad = {}
        THEN [raised |-> "none", at |-> 0,
              net |-> UpdateBlocksCurrWidth(SetLayersWidthIdx(n, idxList, k), NBlocks)]
        ELSE LET first == CHOOSE j \in bad : \A j2 \in bad : j <= j2
             IN  [raised |-> "IndexError", at |-> first,
                  net |-> SetLayersWidthIdx(n, idxList, first - 1)]

\* BaseNet.setCurrWidthIdx(idxList) for any list: the exception raised, the
\* position of the layer that raised it, and the model the call leaves
BaseNet_setCurrWidthIdx_Any(n, idxList) ==
    IF Len(idxList) # nLayers
    THEN [raised |-> "AssertionError", at |-> 0, net |-> n]
    ELSE LET bad == {j \in 1..nLayers : Layer_idxOutOfRange(n, optimization[j], idxList[j])}
         IN  IF bad = {}
             THEN [raised |-> "none", at |-> 0, net |-> BaseNet_setCurrWidthIdx(n, idxList)]
             ELSE LET first == CHOOSE j \in bad : \A j2 \in bad : j <= j2
                  IN  [raised |-> "IndexError", at |-> first,
                       net |-> SetLayersWidthIdx(n, idxList, first - 1)]

\* _buildBaselineWidthDict(args) on the blocks initBlocks built, for any
\* args.partition: the assertion of _addPartitionFlops comes first
BaseNet_buildBaselineWidthDict_Any(n, part) ==
    IF part # <<>> /\ Len(part) # nLayers
    THEN [raised |-> "AssertionError", net |-> n, baselineWidth |-> <<>>]
    ELSE LET built == BaseNet_buildBaselineWidthDict(n, part, TRUE)
         IN  [raised |-> "none", net |-> built.net, baselineWidth |-> built.baselineWidth]

\* args.partition of a construction: none, one of the right length, and
\* ones too short and too long that initBlocks can still index by block
PartitionArgs ==
    {<<>>, <<50, 100, 50, 50>>, <<50, 100>>, <<50, 100, 50>>, <<50, 100, 50, 50, 50>>}

\* the indices handed to setCurrWidthIdx: two every layer has, and one past
\* the widths any layer can have
IdxArgs == {0, 1, NWidths + 2}

\* the index lists handed to setCurrWidthIdx: of the right length, and one
\* entry too short or too long
IdxListArgs ==
    [1..nLayers -> IdxArgs]
        \cup [1..(nLayers - 1) -> 0..1] \cup [1..(nLayers + 1) -> 0..1]

\* the blocks of a model under construction, before _buildBaselineWidthDict
NetPreInit ==
    \E part \in PartitionArgs :
        /\ partition = part
        /\ LET built == InitBlocks(part)
           IN  /\ widthRatioList = built.wr
               /\ currIdx = built.idx
               /\ downsample = built.ds
               /\ residualFunc = built.res
        /\ baselineWidth = <<>>
        /\ origStateDict = TRUE
        /\ call = NoCall

\* the rest of BaseNet.__init__: self._buildBaselineWidthDict(args)
BuildBaselineWidthDict ==
    /\ call.op = "init"
    /\ LET ret == BaseNet_buildBaselineWidthDict_Any(Net, partition)
       IN  /\ SetNet(ret.net)
           /\ baselineWidth' = ret.baselineWidth
           /\ call' = [NoCall EXCEPT !.op = "_buildBaselineWidthDict", !.raised = ret.raised]
    /\ UNCHANGED <<partition, origStateDict>>

\* the constructor has returned a model
Constructed == call.op # "init" /\ ~(call.op = "_buildBaselineWidthDict" /\ call.raised # "none")

\* model.setCurrWidthIdx(idxList) with any list
SetCurrWidthIdxAny(idxList) ==
    /\ Constructed
    /\ LET ret == BaseNet_setCurrWidthIdx_Any(Net, idxList)
       IN  /\ SetNet(ret.net)
           /\ call' = [NoCall EXCEPT !.op = "setCurrWidthIdx", !.raised = ret.raised,
                                     !.block = ret.at]
    /\ UNCHANGED <<partition, baselineWidth, origStateDict>>


\* the width ratios a caller asks buildHomogeneousWidthIdx for
Ratios == {25, 50, 75, 100}

\* the lists of at most MaxRatios ratios
RatioLists == UNION {[1..k -> Ratios] : k \in 1..MaxRatios}

\* the assertion of a widthRatioIdx lookup failed while the dictionary was built
HomogeneousRaises(built) ==
    \E j \in 1..Len(built), k \in 1..nLayers : built[j].idxList[k] = -1

\* model.buildHomogeneousWidthIdx(widthRatios): the dictionary returned, or
\* the assertion error
BuildHomogeneousWidthIdx(widthRatios) ==
    LET built == BaseNet_buildHomogeneousWidthIdx(Net, widthRatios)
        raised == HomogeneousRaises(built)
    IN  /\ call' = [NoCall EXCEPT !.op = "buildHomogeneousWidthIdx",
                                  !.pre = widthRatios,
                                  !.flag = raised,
                                  !.results = IF raised THEN <<>> ELSE built]
        /\ UNCHANGED <<partition, widthRatioList, currIdx, downsample, residualFunc,
                       baselineWidth, origStateDict>>

\* model.setCurrWidthIdx(homogeneousWidth[r]) with entry j of the dictionary
\* the last buildHomogeneousWidthIdx returned
SetHomogeneous(j) ==
    /\ call.op = "buildHomogeneousWidthIdx"
    /\ j \in 1..Len(call.results)
    /\ SetNet(BaseNet_setCurrWidthIdx(Net, call.results[j].idxList))
    /\ call' = [call EXCEPT !.op = "setHomogeneous", !.block = j,
                            !.idxList = call.results[j].idxList]
    /\ UNCHANGED <<partition, baselineWidth, origStateDict>>

(***************************************************************************)
(* _splitSamples and the ModelReplicator                                   *)
(***************************************************************************)
\* largest nSamples handed to _splitSamples on its own
MaxSplitSamples == 10

\* number of devices a gpuIDs list is drawn from, for _splitSamples on its own
MaxDevices == 3

\* largest nSamples of a loss() call
MaxSamples == 5

\* largest number of devices (worker processes) of a loss() call
MaxWorkers == 2

\* in-place updates of the source model's weights in one behaviour
MaxUpdates == 2

\* largest calibration breakpoint (FLOPs) of a FlopsLoss table
MaxFlops == 4

\* largest args.optimal_epochs
MaxOptimalEpochs == 2

\* most epochs a run of the loop is followed for
MaxEpochs == 6

\* largest args.nSamples of the gradient update, and longest list handed to it
MaxGradSamples == 2

\* number of slots of a sampled partition
MaxGradLayers == 3

\* the lists of distinct device ids among 0..(n - 1), in any order
DeviceLists(n) ==
    {ids \in UNION {[1..k -> 0..(n - 1)] : k \in 1..n} :
        \A i, j \in 1..Len(ids) : i # j => ids[i] # ids[j]}

RECURSIVE SumValues(_, _)
\* sum(nSamplesPerCopy.values()) over the keys in ks
SumValues(f, ks) ==
    IF ks = {} THEN 0
    ELSE LET k == CHOOSE x \in ks : TRUE IN f[k] + SumValues(f, ks \ {k})

RECURSIVE SplitDiff(_, _, _)
\* for idx in range(diff): nSamplesPerCopy[gpuIDs[idx]] += 1
SplitDiff(nSamplesPerCopy, ids, diff) ==
    IF diff = 0 THEN nSamplesPerCopy
    ELSE LET prev == SplitDiff(nSamplesPerCopy, ids, diff - 1)
         IN  [prev EXCEPT ![ids[diff]] = @ + 1]

\* _splitSamples that gives the remainder to the last devices
splitSamples_FromLast(n, ids) ==
    LET nCopies == Len(ids)
        nSamplesPerCopy == [gpu \in Range(ids) |-> n \div nCopies]
        diff == n - SumValues(nSamplesPerCopy, Range(ids))
    IN  [gpu \in Range(ids) |->
            IF \E i \in (nCopies - diff + 1)..nCopies : ids[i] = gpu
            THEN nSamplesPerCopy[gpu] + 1 ELSE nSamplesPerCopy[gpu]]

\* ModelReplicator._splitSamples
splitSamples(n, ids) ==
    LET nCopies == Len(ids)
        nSamplesPerCopy == [gpu \in Range(ids) |-> n \div nCopies]
        diff == n - SumValues(nSamplesPerCopy, Range(ids))
    IN  SplitDiff(nSamplesPerCopy, ids, diff)

\* _splitSamples(nSamples) with self.gpuIDs = ids
SplitSamples ==
    /\ splitOut = <<>>
    /\ splitOut' = splitSamples(splitIn.nSamples, splitIn.gpuIDs)
    /\ UNCHANGED splitIn

SplitInit ==
    /\ splitIn \in [nSamples : 0..MaxSplitSamples, gpuIDs : DeviceLists(MaxDevices)]
    /\ splitOut = <<>>

(***************************************************************************)
(* One loss() call: the coordinator and one worker process per device.     *)
(* A path-history trie (nested dicts keyed by width index) is held as the  *)
(* set of the index prefixes that have a node.                             *)
(***************************************************************************)
\* the width ratios of the optimization layers of the replicated model
repWidthRatioList == <<50, 100>>

\* the optimization layers of the replicated model (layersList())
repLayersList == <<conv1(1), conv2(1)>>

\* the replica's model: only its width ratio lists are read here
RepModel == [wr |-> [l \in Range(repLayersList) |-> repWidthRatioList]]

\* the paths choosePathByAlphas can draw: one valid width index per layer
PathSpace ==
    {path \in [1..Len(repLayersList) -> 0..(Len(repWidthRatioList) - 1)] :
        \A k \in 1..Len(repLayersList) : path[k] < nWidths(RepModel, repLayersList[k])}

\* [layer.widthRatioByIdx(p) for p, layer in zip(pathWidthIdx, cModel.layersList())]
PathWidthRatios(path) ==
    [k \in 1..Len(path) |-> widthRatioByIdx(RepModel, repLayersList[k], path[k])]

RECURSIVE DoesPathExistLoop(_, _, _)
\* the loop of _doesPathExist over the first k entries of currPath
DoesPathExistLoop(dict, currPath, k) ==
    IF k = 0 THEN [pathExists |-> TRUE, dict |-> dict]
    ELSE LET prev == DoesPathExistLoop(dict, currPath, k - 1)
             node == SubSeq(currPath, 1, k)
         IN  IF node \notin prev.dict
             THEN [pathExists |-> FALSE, dict |-> prev.dict \cup {node}]
             ELSE prev

\* _doesPathExist that tests the levels and adds no node
doesPathExist_NoInsert(dict, currPath) ==
    [pathExists |-> \A k \in 1..Len(currPath) : SubSeq(currPath, 1, k) \in dict,
     dict |-> dict]

\* ModelReplicator._doesPathExist: the flag returned and the trie on return
doesPathExist(dict, currPath) == DoesPathExistLoop(dict, currPath, Len(currPath))

\* a history handed over from the tries that exist already
newPathsHistoryDict_Shared(tries) == UNION {tries[g] : g \in DOMAIN tries}

\* pathsHistoryDict = {} of lossPerReplication; tries are those of the other workers
newPathsHistoryDict(tries) == {}

\* the loop of _generateNewPath ended by its first draw
generateNewPathLoops_Once(pathExists) == FALSE

\* the loop of _generateNewPath that no draw ends
generateNewPathLoops_Forever(pathExists) == TRUE

\* while pathExists: whether _generateNewPath draws again
generateNewPathLoops(pathExists) == pathExists

Gpus == Range(gpuIDs)

\* the device of the source model: model.cuda() under DataParallel(model, args.gpu)
srcDevice(ids) == ids[1]

\* ModelReplicator._cloneModelStateDict: per device, the source's own tensors
\* (shared) on the source's device and clones of them elsewhere
cloneModelStateDict(ids, device, weights) ==
    [gpu \in Range(ids) |-> [shared |-> (device = gpu), value |-> weights]]

\* optimizer.step(): the source model's tensors are written in place, and
\* with them every entry that is those tensors
optimizerStep(dicts, weights) ==
    [gpu \in DOMAIN dicts |->
        IF dicts[gpu].shared THEN [dicts[gpu] EXCEPT !.value = weights] ELSE dicts[gpu]]

\* buildArgs with every task made for the first device
buildArgs_FirstDevice(ids, dicts, nSamplesPerCopy) ==
    [i \in 1..Len(ids) |->
        [gpu |-> ids[1], modelStateDict |-> dicts[ids[1]].value,
         nSamples |-> nSamplesPerCopy[ids[1]]]]

\* ModelReplicator.buildArgs: one task per entry of gpuIDs
buildArgs(ids, dicts, nSamplesPerCopy) ==
    [i \in 1..Len(ids) |->
        [gpu |-> ids[i], modelStateDict |-> dicts[ids[i]].value,
         nSamples |-> nSamplesPerCopy[ids[i]]]]

\* Pool(processes=nCopies, maxtasksperchild=1)
maxtasksperchild == 1

\* the pool processes of a loss() call
Procs == 1..Len(gpuIDs)

\* the devices whose task process p took
tasksOf(p) == {g \in Gpus : procOf[g] = p}

\* a pool process that is handed tasks as long as it lives
processTakesTask_Reused(nTasksRun, busy) == ~busy

\* whether the pool hands a task to a process that ran nTasksRun tasks
processTakesTask(nTasksRun, busy) == ~busy /\ nTasksRun < maxtasksperchild

\* p.map that returns with the results of the workers that did not fail
mapReturns_Partial(pcs) == \A g \in DOMAIN pcs : pcs[g] \in {"done", "failed"}

\* p.map returns its list of results when every task has returned
mapReturns(pcs) == \A g \in DOMAIN pcs : pcs[g] = "done"

\* a worker loop that runs one iteration more than range(nSamples)
rangeExhausted_OneMore(idx, n) == idx > n

\* for sampleIdx in range(nSamples): no iteration is left at idx
rangeExhausted(idx, n) == idx >= n

\* a restore that leaves the weights as the last training left them
restoreModelOriginalWeights_Skip(weights) == weights

\* replica.restoreModelOriginalWeights(): back to the cloned weights, which
\* no path has trained
restoreModelOriginalWeights(weights) == <<>>

\* replica.train(trainParams) on the sampled path
train(weights, path) == Append(weights, path)

RepInit ==
    /\ gpuIDs \in {[i \in 1..k |-> i - 1] : k \in 1..MaxWorkers}
    /\ nSamples = 0
    /\ lossPc = "idle"
    /\ nSamplesPerModel = [g \in Gpus |-> 0]
    /\ workerPc = [g \in Gpus |-> "none"]
    /\ sampleIdx = [g \in Gpus |-> 0]
    /\ pathWidthIdx = [g \in Gpus |-> <<>>]
    /\ pathsHistoryDict = [g \in Gpus |-> {}]
    /\ pathsList = [g \in Gpus |-> <<>>]
    /\ srcWeights = 0
    /\ epochWeights = 0
    /\ modelStateDict = cloneModelStateDict(gpuIDs, srcDevice(gpuIDs), 0)
    /\ poolArgs = <<>>
    /\ procOf = [g \in Gpus |-> 0]
    /\ replicaWeights = [g \in Gpus |-> -1]
    /\ results = <<>>
    /\ cModelWeights = [g \in Gpus |-> <<>>]
    /\ iterStartWeights = [g \in Gpus |-> <<>>]

\* trainWeights on the source model between two loss() calls: optimizer.step()
TrainWeights ==
    /\ lossPc = "idle"
    /\ srcWeights < MaxUpdates
    /\ srcWeights' = srcWeights + 1
    /\ modelStateDict' = optimizerStep(modelStateDict, srcWeights + 1)
    /\ UNCHANGED <<gpuIDs, nSamples, lossPc, nSamplesPerModel, workerPc, sampleIdx,
                   pathWidthIdx, pathsHistoryDict, pathsList, epochWeights, poolVars, replicaVars>>

\* initNewEpoch(srcModel)
InitNewEpoch ==
    /\ lossPc = "idle"
    /\ modelStateDict' = cloneModelStateDict(gpuIDs, srcDevice(gpuIDs), srcWeights)
    /\ epochWeights' = srcWeights
    /\ UNCHANGED <<gpuIDs, nSamples, lossPc, nSamplesPerModel, workerPc, sampleIdx,
                   pathWidthIdx, pathsHistoryDict, pathsList, srcWeights, poolVars, replicaVars>>

\* loss(input, target, n) up to the pool's map: one task per device
Loss(n) ==
    /\ lossPc = "idle"
    /\ nSamples' = n
    /\ nSamplesPerModel' = splitSamples(n, gpuIDs)
    /\ poolArgs' = buildArgs(gpuIDs, modelStateDict, splitSamples(n, gpuIDs))
    /\ workerPc' = [g \in Gpus |-> "task"]
    /\ lossPc' = "pool"
    /\ UNCHANGED <<gpuIDs, sampleIdx, pathWidthIdx, pathsHistoryDict, pathsList,
                   weightVars, procOf, replicaWeights, results, replicaVars>>

\* a pool process takes the task of device g: lossPerReplication up to its
\* loop: the replica is built from the transferred weights, the history is
\* empty; with no sample to draw the worker returns at once
StartWorker(g) ==
    /\ lossPc = "pool"
    /\ workerPc[g] = "task"
    /\ \E i \in DOMAIN poolArgs, p \in Procs :
          /\ poolArgs[i].gpu = g
          /\ processTakesTask(Cardinality(tasksOf(p)),
                              \E h \in tasksOf(p) : workerPc[h] = "sampling")
          /\ procOf' = [procOf EXCEPT ![g] = p]
          /\ replicaWeights' = [replicaWeights EXCEPT ![g] = poolArgs[i].modelStateDict]
    /\ pathsHistoryDict' = [pathsHistoryDict EXCEPT ![g] = newPathsHistoryDict(pathsHistoryDict)]
    /\ pathsList' = [pathsList EXCEPT ![g] = <<>>]
    /\ pathWidthIdx' = [pathWidthIdx EXCEPT ![g] = [k \in 1..Len(repLayersList) |-> 0]]
    /\ sampleIdx' = [sampleIdx EXCEPT ![g] = 0]
    /\ workerPc' = [workerPc EXCEPT ![g] =
                       IF rangeExhausted(0, nSamplesPerModel[g]) THEN "done" ELSE "sampling"]
    /\ cModelWeights' = [cModelWeights EXCEPT ![g] = <<>>]
    /\ iterStartWeights' = [iterStartWeights EXCEPT ![g] = <<>>]
    /\ UNCHANGED <<gpuIDs, nSamples, lossPc, nSamplesPerModel, weightVars, poolArgs, results>>

\* one pass of the loop of _generateNewPath in iteration sampleIdx[g]:
\* choosePathByAlphas draws path, _doesPathExist looks it up; a new path ends
\* the loop and evaluateSample records, trains and evaluates it.  The
\* restore at the head of _generateNewPath comes before the first pass; a
\* later pass of the same iteration finds the weights as restored
SamplePath(g, path) ==
    /\ workerPc[g] = "sampling"
    /\ LET looked == doesPathExist(pathsHistoryDict[g], path)
           restored == restoreModelOriginalWeights(cModelWeights[g])
       IN  /\ pathWidthIdx' = [pathWidthIdx EXCEPT ![g] = path]
           /\ pathsHistoryDict' = [pathsHistoryDict EXCEPT ![g] = looked.dict]
           /\ IF generateNewPathLoops(looked.pathExists)
              THEN /\ cModelWeights' = [cModelWeights EXCEPT ![g] = restored]
                   /\ UNCHANGED <<pathsList, sampleIdx, workerPc, iterStartWeights>>
              ELSE /\ pathsList' = [pathsList EXCEPT ![g] = Append(@, PathWidthRatios(path))]
                   /\ iterStartWeights' = [iterStartWeights EXCEPT ![g] = Append(@, restored)]
                   /\ cModelWeights' = [cModelWeights EXCEPT ![g] = train(restored, path)]
                   /\ sampleIdx' = [sampleIdx EXCEPT ![g] = @ + 1]
                   /\ workerPc' = [workerPc EXCEPT ![g] =
                                      IF rangeExhausted(sampleIdx[g] + 1, nSamplesPerModel[g])
                                      THEN "done" ELSE "sampling"]
    /\ UNCHANGED <<gpuIDs, nSamples, lossPc, nSamplesPerModel, weightVars, poolVars>>

\* the pool's map has every result: loss() calls processResults(results) and returns
ProcessResults ==
    /\ lossPc = "pool"
    /\ mapReturns(workerPc)
    /\ lossPc' = "done"
    /\ results' = [i \in 1..Len(poolArgs) |->
                      [gpu |-> poolArgs[i].gpu, pathsList |-> pathsList[poolArgs[i].gpu]]]
    /\ UNCHANGED <<gpuIDs, nSamples, nSamplesPerModel, workerPc, sampleIdx,
                   pathWidthIdx, pathsHistoryDict, pathsList, weightVars,
                   poolArgs, procOf, replicaWeights, replicaVars>>

\* the worker of device g raises (CUDA out of memory, say) in one of its iterations
WorkerFails(g) ==
    /\ lossPc = "pool"
    /\ workerPc[g] = "sampling"
    /\ workerPc' = [workerPc EXCEPT ![g] = "failed"]
    /\ UNCHANGED <<gpuIDs, nSamples, lossPc, nSamplesPerModel, sampleIdx,
                   pathWidthIdx, pathsHistoryDict, pathsList, weightVars, poolVars, replicaVars>>

\* p.map re-raises the worker's exception in loss(), which does not catch it;
\* leaving the with block terminates the pool
LossRaises ==
    /\ lossPc = "pool"
    /\ \E g \in Gpus : workerPc[g] = "failed"
    /\ lossPc' = "failed"
    /\ workerPc' = [g \in Gpus |->
                       IF workerPc[g] \in {"done", "failed"} THEN workerPc[g] ELSE "terminated"]
    /\ UNCHANGED <<gpuIDs, nSamples, nSamplesPerModel, sampleIdx,
                   pathWidthIdx, pathsHistoryDict, pathsList, weightVars, poolVars, replicaVars>>

SplitIdle == /\ splitIn = <<>>
             /\ splitOut = <<>>

RepIdle == /\ gpuIDs = <<>>
           /\ nSamples = 0
           /\ lossPc = "idle"
           /\ nSamplesPerModel = <<>>
           /\ workerPc = <<>>
           /\ sampleIdx = <<>>
           /\ pathWidthIdx = <<>>
           /\ pathsHistoryDict = <<>>
           /\ pathsList = <<>>
           /\ srcWeights = 0
           /\ epochWeights = 0
           /\ modelStateDict = <<>>
           /\ poolArgs = <<>>
           /\ procOf = <<>>
           /\ replicaWeights = <<>>
           /\ results = <<>>
           /\ cModelWeights = <<>>
           /\ iterStartWeights = <<>>

(***************************************************************************)
(* FlopsLoss.forward: the bracket of the calibration table and the         *)
(* expected loss.  FLOPs, slopes and intercepts are integers here.         *)
(***************************************************************************)
RECURSIVE BisectLoop(_, _, _, _)
\* the loop of bisect_left on the 0-based positions lo..hi of the sorted list a
BisectLoop(a, x, lo, hi) ==
    IF lo < hi
    THEN LET mid == (lo + hi) \div 2
         IN  IF a[mid + 1] < x THEN BisectLoop(a, x, mid + 1, hi)
                               ELSE BisectLoop(a, x, lo, mid)
    ELSE lo

\* the position after the entries of a that are at most x
bisect_right(a, x) == Cardinality({i \in 1..Len(a) : a[i] <= x})

\* bisect.bisect_left(a, x)
bisect_left(a, x) == BisectLoop(a, x, 0, Len(a))

\* a[i:j] of Python for 0 <= i <= j
Slice(a, i, j) == SubSeq(a, i + 1, IF j < Len(a) THEN j ELSE Len(a))

\* the bracket taken around flopsIdx also at the low end; [-1:1] is empty
selectBracket_NoClamp(flopsList, flopsIdx) ==
    IF flopsIdx <= 0 THEN <<>> ELSE Slice(flopsList, flopsIdx - 1, flopsIdx + 1)

\* the bracket taken one position too high: [flopsIdx:flopsIdx + 2]
selectBracket_Shifted(flopsList, flopsIdx) ==
    IF flopsIdx <= 0
    THEN Slice(flopsList, 0, 2)
    ELSE Slice(flopsList, flopsIdx, flopsIdx + 2)

\* the entries forward unpacks into x0, x1
selectBracket(flopsList, flopsIdx) ==
    IF flopsIdx <= 0
    THEN Slice(flopsList, 0, 2)
    ELSE Slice(flopsList, flopsIdx - 1, flopsIdx + 1)

\* the keys of the loss dictionary
lossKeys == {"Total", "CrossEntropy", "Flops"}

\* FlopsLoss.forward(input, target, modelFlops) over the table flopsList, with
\* linearLineParams[i] the line of the pair (flopsList[i], flopsList[i + 1])
FlopsLoss_forward(flopsList, linearLineParams, modelFlops) ==
    LET flopsIdx == bisect_left(flopsList, modelFlops)
        pair == selectBracket(flopsList, flopsIdx)
        failed(e) == [raised |-> e, flopsIdx |-> flopsIdx, x0 |-> 0, x1 |-> 0,
                      expectedLoss |-> 0, keys |-> {}]
    IN  IF Len(pair) # 2 THEN failed("ValueError")
        ELSE LET x0 == pair[1]
                 x1 == pair[2]
                 hasLine(i) == flopsList[i] = x0 /\ flopsList[i + 1] = x1
             IN  IF flopsIdx > 0 /\ ~(x0 <= modelFlops /\ modelFlops <= x1)
                 THEN failed("AssertionError")
                 ELSE IF ~(\E i \in 1..Len(linearLineParams) : hasLine(i))
                 THEN failed("KeyError")
                 ELSE LET line == linearLineParams[CHOOSE i \in 1..Len(linearLineParams) : hasLine(i)]
                      IN  [raised |-> "none", flopsIdx |-> flopsIdx, x0 |-> x0, x1 |-> x1,
                           expectedLoss |-> (line.m * modelFlops) + line.b,
                           keys |-> lossKeys]

\* the sorted tables of two breakpoints or more out of 1..MaxFlops
FlopsLists ==
    {a \in UNION {[1..k -> 1..MaxFlops] : k \in 2..MaxFlops} :
        \A i \in 1..(Len(a) - 1) : a[i] < a[i + 1]}

\* the fitted lines: a slope and an intercept
Lines == [m : {1, 2}, b : {0, 3}]

FlopsInit ==
    /\ flopsLossIn \in
          {in \in [flopsList : FlopsLists,
                   linearLineParams : UNION {[1..k -> Lines] : k \in 1..(MaxFlops - 1)},
                   modelFlops : 0..(MaxFlops + 1)] :
              Len(in.linearLineParams) = Len(in.flopsList) - 1}
    /\ flopsLossOut = <<>>

\* flopsLoss(logits, target, modelFlops)
Forward ==
    /\ flopsLossOut = <<>>
    /\ flopsLossOut' = FlopsLoss_forward(flopsLossIn.flopsList, flopsLossIn.linearLineParams,
                                         flopsLossIn.modelFlops)
    /\ UNCHANGED flopsLossIn

FlopsIdle == /\ flopsLossIn = <<>>
             /\ flopsLossOut = <<>>

(***************************************************************************)
(* TrainRegime.initialWeightsTraining: the epoch loop                      *)
(***************************************************************************)
\* while nEpochsOptimum <= args.optimal_epochs
loopContinues(n, optimalEpochs) == n <= optimalEpochs

TrainInit ==
    /\ optimal_epochs \in 0..MaxOptimalEpochs
    /\ epoch = 0
    /\ nEpochsOptimum = 0
    /\ trainPc = "loop"
    /\ isBestHistory = <<>>

\* one pass of the loop body; is_best is what trainOptimum.is_best(epoch) returns
Epoch(is_best) ==
    /\ trainPc = "loop"
    /\ loopContinues(nEpochsOptimum, optimal_epochs)
    /\ epoch < MaxEpochs
    /\ epoch' = epoch + 1
    /\ nEpochsOptimum' = IF is_best THEN 0 ELSE nEpochsOptimum + 1
    /\ isBestHistory' = Append(isBestHistory, is_best)
    /\ UNCHANGED <<optimal_epochs, trainPc>>

\* the loop test fails and the summary row is written
LoopExit ==
    /\ trainPc = "loop"
    /\ ~loopContinues(nEpochsOptimum, optimal_epochs)
    /\ trainPc' = "done"
    /\ UNCHANGED <<optimal_epochs, epoch, nEpochsOptimum, isBestHistory>>

TrainIdle ==
    /\ optimal_epochs = 0
    /\ epoch = 0
    /\ nEpochsOptimum = 0
    /\ trainPc = "idle"
    /\ isBestHistory = <<>>

(***************************************************************************)
(* MultinomialSearchRegime._updateAlphasGradients.  Losses are integers;   *)
(* the averages are kept as sums with their divisors.                      *)
(***************************************************************************)
\* indices of the alphas
AlphaIdx == 0..1

RECURSIVE groupby(_)
\* itertools.groupby(partition, key=lambda x: x): the runs of equal
\* consecutive entries, in order, each with its key and its length
groupby(seq) ==
    IF seq = <<>> THEN <<>>
    ELSE LET rest == groupby(Tail(seq))
         IN  IF rest # <<>> /\ rest[1].key = Head(seq)
             THEN <<[key |-> Head(seq), len |-> rest[1].len + 1]>> \o Tail(rest)
             ELSE <<[key |-> Head(seq), len |-> 1]>> \o rest

RECURSIVE AssignGroupsSize(_, _)
\* for _, group in groups: partitionGroupsSize[group[0]] = len(group), first k groups
AssignGroupsSize(groups, k) ==
    IF k = 0 THEN [a \in AlphaIdx |-> 0]
    ELSE [AssignGroupsSize(groups, k - 1) EXCEPT ![groups[k].key] = groups[k].len]

\* partitionGroupsSize of one sampled partition
partitionGroupsSize(part) ==
    LET groups == groupby(part) IN AssignGroupsSize(groups, Len(groups))

RECURSIVE SumOver(_, _)
\* f[1] + ... + f[k]
SumOver(f, k) == IF k = 0 THEN 0 ELSE SumOver(f, k - 1) + f[k]

\* _updateAlphasGradients(lossDictsPartitionList) under args.nSamples = n:
\* v2 and lossAvg as their sums over n, lossVariance as a fraction
updateAlphasGradients(n, list) ==
    IF Len(list) # n
    THEN [raised |-> "AssertionError", groupsSize |-> <<>>, v2Sum |-> <<>>, lossSum |-> 0,
          gradSet |-> FALSE, lossVariance |-> <<>>, recorded |-> FALSE]
    ELSE LET sizes == [i \in 1..Len(list) |-> partitionGroupsSize(list[i].partition)]
             v2Sum == [a \in AlphaIdx |->
                          SumOver([i \in 1..Len(list) |-> list[i].Total * sizes[i][a]], Len(list))]
             lossSum == SumOver([i \in 1..Len(list) |-> list[i].Total], Len(list))
             \* (x - lossAvg) ** 2 summed, times n * n
             sqSum == SumOver([i \in 1..Len(list) |->
                                  ((n * list[i].Total) - lossSum) * ((n * list[i].Total) - lossSum)],
                              Len(list))
         IN  IF n - 1 = 0
             THEN [raised |-> "ZeroDivisionError", groupsSize |-> sizes, v2Sum |-> v2Sum,
                   lossSum |-> lossSum, gradSet |-> TRUE, lossVariance |-> <<>>,
                   recorded |-> FALSE]
             ELSE [raised |-> "none", groupsSize |-> sizes, v2Sum |-> v2Sum,
                   lossSum |-> lossSum, gradSet |-> TRUE,
                   lossVariance |-> [num |-> sqSum, den |-> n * n * (n - 1)],
                   recorded |-> TRUE]

\* the sampled pairs: a Total loss and a partition, one alpha index per slot
LossDictPartitions == [Total : {1, 2}, partition : [1..MaxGradLayers -> AlphaIdx]]

GradInit ==
    /\ gradIn \in [nSamples : 1..MaxGradSamples,
                   lossDictsPartitionList :
                       UNION {[1..k -> LossDictPartitions] : k \in 1..MaxGradSamples}]
    /\ gradOut = <<>>

\* self._updateAlphasGradients(lossDictsPartitionList)
UpdateAlphasGradients ==
    /\ gradOut = <<>>
    /\ gradOut' = updateAlphasGradients(gradIn.nSamples, gradIn.lossDictsPartitionList)
    /\ UNCHANGED gradIn

GradIdle == /\ gradIn = <<>>
            /\ gradOut = <<>>

RegimeIdle == TrainIdle /\ GradIdle

(***************************************************************************)
(* Specifications                                                          *)
(***************************************************************************)
Init == NetInit /\ SplitIdle /\ RepIdle /\ FlopsIdle /\ RegimeIdle

Next ==
    \/ \E idxList \in ValidIdxLists :
          SetCurrWidthIdx(idxList) /\ UNCHANGED <<splitVars, repVars, flopsVars, regimeVars>>
    \/ \E flag \in BOOLEAN : ApplyOnBaseline(flag) /\ UNCHANGED <<splitVars, repVars, flopsVars, regimeVars>>
    \/ GeneratePathBNs /\ UNCHANGED <<splitVars, repVars, flopsVars, regimeVars>>

\* the calls a regime makes on a constructed model
Spec == Init /\ [][Next]_vars

NextLayers ==
    \/ \E k \in 1..nLayers, i \in 0..(NWidths + 1) :
          LayerSetCurrWidthIdx(optimization[k], i) /\ UNCHANGED <<splitVars, repVars, flopsVars, regimeVars>>
    \/ \E b \in Blocks : BlockUpdateCurrWidth(b) /\ UNCHANGED <<splitVars, repVars, flopsVars, regimeVars>>

\* the calls on single layers and blocks of a constructed model
SpecLayers == Init /\ [][NextLayers]_vars

NextHomogeneous ==
    \/ \E widthRatios \in RatioLists :
          BuildHomogeneousWidthIdx(widthRatios) /\ UNCHANGED <<splitVars, repVars, flopsVars, regimeVars>>
    \/ \E j \in 1..MaxRatios : SetHomogeneous(j) /\ UNCHANGED <<splitVars, repVars, flopsVars, regimeVars>>

\* buildHomogeneousWidthIdx on a constructed model, and its entries applied
SpecHomogeneous == Init /\ [][NextHomogeneous]_vars

InitMismatch == NetPreInit /\ SplitIdle /\ RepIdle /\ FlopsIdle /\ RegimeIdle

NextMismatch ==
    \/ BuildBaselineWidthDict /\ UNCHANGED <<splitVars, repVars, flopsVars, regimeVars>>
    \/ \E idxList \in IdxListArgs :
          SetCurrWidthIdxAny(idxList) /\ UNCHANGED <<splitVars, repVars, flopsVars, regimeVars>>

\* a construction with any partition, then setCurrWidthIdx with any list
SpecMismatch == InitMismatch /\ [][NextMismatch]_vars

\* a constructed model nobody calls
NetIdle == NetInit /\ partition = <<>>

InitSplit == NetIdle /\ SplitInit /\ RepIdle /\ FlopsIdle /\ RegimeIdle

NextSplit == SplitSamples /\ UNCHANGED <<netVars, repVars, flopsVars, regimeVars>>

\* _splitSamples on every input
SpecSplit == InitSplit /\ [][NextSplit]_vars

InitFlops == NetIdle /\ SplitIdle /\ RepIdle /\ FlopsInit /\ RegimeIdle

NextFlops == Forward /\ UNCHANGED <<netVars, splitVars, repVars, regimeVars>>

\* FlopsLoss.forward on every table and every modelFlops
SpecFlops == InitFlops /\ [][NextFlops]_vars

InitTrain == NetIdle /\ SplitIdle /\ RepIdle /\ FlopsIdle /\ TrainInit /\ GradIdle

NextTrain ==
    \/ \E is_best \in BOOLEAN :
          Epoch(is_best) /\ UNCHANGED <<netVars, splitVars, repVars, flopsVars, gradVars>>
    \/ LoopExit /\ UNCHANGED <<netVars, splitVars, repVars, flopsVars, gradVars>>

\* the epoch loop of initialWeightsTraining
SpecTrain == InitTrain /\ [][NextTrain]_vars

InitGrad == NetIdle /\ SplitIdle /\ RepIdle /\ FlopsIdle /\ TrainIdle /\ GradInit

NextGrad == UpdateAlphasGradients /\ UNCHANGED <<netVars, splitVars, repVars, flopsVars, trainVars>>

\* _updateAlphasGradients on every list of sampled pairs
SpecGrad == InitGrad /\ [][NextGrad]_vars

InitRep == NetIdle /\ SplitIdle /\ RepInit /\ FlopsIdle /\ RegimeIdle

NextRep ==
    \/ \E n \in 0..MaxSamples : Loss(n) /\ UNCHANGED <<netVars, splitVars, flopsVars, regimeVars>>
    \/ \E g \in Gpus : StartWorker(g) /\ UNCHANGED <<netVars, splitVars, flopsVars, regimeVars>>
    \/ \E g \in Gpus, path \in PathSpace :
          SamplePath(g, path) /\ UNCHANGED <<netVars, splitVars, flopsVars, regimeVars>>
    \/ ProcessResults /\ UNCHANGED <<netVars, splitVars, flopsVars, regimeVars>>

\* one loss() call of the ModelReplicator
SpecRep == InitRep /\ [][NextRep]_vars

NextRepFail ==
    \/ NextRep
    \/ \E g \in Gpus : WorkerFails(g) /\ UNCHANGED <<netVars, splitVars, flopsVars, regimeVars>>
    \/ LossRaises /\ UNCHANGED <<netVars, splitVars, flopsVars, regimeVars>>

\* one loss() call in which workers can fail
SpecRepFail == InitRep /\ [][NextRepFail]_vars

NextEpoch ==
    \/ NextRep
    \/ TrainWeights /\ UNCHANGED <<netVars, splitVars, flopsVars, regimeVars>>
    \/ InitNewEpoch /\ UNCHANGED <<netVars, splitVars, flopsVars, regimeVars>>

\* weights training and initNewEpoch calls, then one loss() call
SpecEpoch == InitRep /\ [][NextEpoch]_vars

\* the device ids a loss() call can have
GpuIds == 0..(MaxWorkers - 1)

\* a fair sampler: while worker g keeps sampling, choosePathByAlphas draws every path again and again
FairSampler ==
    \A g \in GpuIds, path \in PathSpace :
        WF_vars(IF g \in Gpus
                THEN SamplePath(g, path) /\ UNCHANGED <<netVars, splitVars, flopsVars, regimeVars>>
                ELSE FALSE)

\* one loss() call with a fair sampler in every worker
SpecRepFair == SpecRep /\ FairSampler

(***************************************************************************)
(* Claims about the width-switchable model                                 *)
(***************************************************************************)
TempBlocks == {b \in Blocks : DownsampleClass(b) = "TempDownsample"}

PermanentBlocks == {b \in Blocks : DownsampleClass(b) = "PermanentDownsample"}

\* C1: after setCurrWidthIdx(idxList) with a valid idxList, currWidthIdx()
\* returns exactly idxList: the blocks' updateCurrWidth leaves the
\* optimization layers' indices alone.
C1_SetThenGet ==
    call.op = "setCurrWidthIdx" => BaseNet_currWidthIdx(Net) = call.idxList

\* C1 witness: a setCurrWidthIdx with different indices on the layers of the
\* Temporary block has returned and its downsample has been switched on.
C1_Witness ==
    /\ call.op = "setCurrWidthIdx"
    /\ \E b \in TempBlocks :
          /\ currIdx[conv1(b)] # currIdx[conv2(b)]
          /\ currIdx[conv2(b)] # 0
          /\ downsample[b] = "downsampleSrc"

DownsampleConsistent(b) ==
    /\ currIdx[downsampleSrc(b)] = currIdx[conv2(b)]
    /\ b \in TempBlocks =>
          LET equal == Layer_currWidth(Net, BlockPrevLayer(b)) = Layer_currWidth(Net, conv2(b))
          IN  /\ downsample[b] = (IF equal THEN "None" ELSE "downsampleSrc")
              /\ residualFunc[b] = (IF equal THEN "standardResidual" ELSE "downsampleResidual")

\* C3: when setCurrWidthIdx has returned, every block's downsample is
\* consistent with the final widths: the Temporary downsample's decision
\* matches the final widths of its previous layer and of its conv2, and every
\* downsample source layer has its block's conv2 index.
C3_TwoPhase ==
    call.op = "setCurrWidthIdx" => \A b \in Blocks : DownsampleConsistent(b)

\* C3 witness: setCurrWidthIdx has changed the previous layer of a Temporary
\* block and the block's conv2 to different indices with equal widths, and the
\* downsample is off.
C3_Witness ==
    /\ call.op = "setCurrWidthIdx"
    /\ \E b \in TempBlocks :
          /\ b > 1
          /\ currIdx[conv2(b - 1)] # currIdx[conv2(b)]
          /\ currIdx[conv2(b - 1)] # 0
          /\ currIdx[conv2(b)] # 0
          /\ downsample[b] = "None"

\* C4: after TempDownsample.updateCurrWidth the downsample is inactive
\* (None, identity residual, no FLOPs layer) when the previous layer's width
\* equals conv2's width, and active (the source layer, downsample residual,
\* one FLOPs layer) otherwise.
C4_TempTransition ==
    (call.op = "updateCurrWidth" /\ call.block \in TempBlocks) =>
        LET b == call.block
            equal == Layer_currWidth(Net, BlockPrevLayer(b)) = Layer_currWidth(Net, conv2(b))
        IN  IF equal
            THEN /\ Downsample_downsample(Net, b) = "None"
                 /\ residualFunc[b] = "standardResidual"
                 /\ Downsample_getFlopsLayers(Net, b) = <<>>
            ELSE /\ Downsample_downsample(Net, b) = "downsampleSrc"
                 /\ residualFunc[b] = "downsampleResidual"
                 /\ Downsample_getFlopsLayers(Net, b) = <<downsampleSrc(b)>>

\* C4 witness: an updateCurrWidth found the Temporary downsample active and
\* left it inactive, the widths being equal again.
C4_Witness ==
    /\ call.op = "updateCurrWidth"
    /\ call.block \in TempBlocks
    /\ call.wasActive
    /\ downsample[call.block] = "None"

RECURSIVE CountableFlops(_)
\* FLOPs of conv1 and conv2 of the blocks 1..b, and of the downsamples that are active
CountableFlops(b) ==
    IF b = 0 THEN 0
    ELSE CountableFlops(b - 1)
         + Layer_countFlops(Net, conv1(b))
         + Layer_countFlops(Net, conv2(b))
         + (IF downsample[b] # "None" THEN Layer_countFlops(Net, downsampleSrc(b)) ELSE 0)

C7_SplitSamples ==
    splitOut # <<>> =>
        LET n == splitIn.nSamples
            ids == splitIn.gpuIDs
            k == Len(ids)
        IN  /\ DOMAIN splitOut = Range(ids)
            /\ SumValues(splitOut, Range(ids)) = n
            /\ \A g, h \in Range(ids) :
                  splitOut[g] - splitOut[h] \in {-1, 0, 1}
            /\ \A i \in 1..k :
                  splitOut[ids[i]] = (n \div k) + (IF i <= n % k THEN 1 ELSE 0)
            /\ (n = 10 /\ ids = <<0, 1, 2>>) => splitOut = (0 :> 4 @@ 1 :> 3 @@ 2 :> 3)

\* C7 witness: 10 samples have been split over the devices [0, 1, 2].
C7_Witness ==
    /\ splitIn.nSamples = 10
    /\ splitIn.gpuIDs = <<0, 1, 2>>
    /\ splitOut # <<>>

C9_HistoryLocal ==
    \A g \in Gpus :
        \A path \in PathSpace :
            (path \in pathsHistoryDict[g]) <=>
                (\E i \in 1..Len(pathsList[g]) : pathsList[g][i] = PathWidthRatios(path))

\* C9 witness: two different workers of the loss() call have recorded the same path.
C9_Witness ==
    \E g, h \in Gpus :
        /\ g # h
        /\ \E i \in 1..Len(pathsList[g]), j \in 1..Len(pathsList[h]) :
              pathsList[g][i] = pathsList[h][j]

\* every path of the candidate space is in the trie of worker g
HistoryFull(g) == PathSpace \subseteq pathsHistoryDict[g]

\* C10: once every path of the candidate space is in the worker's trie,
\* _generateNewPath does not return: no step takes the worker out of its
\* resampling loop, records a path or ends the iteration.
C10_NeverReturns ==
    [][\A g \in Gpus :
          (workerPc[g] = "sampling" /\ HistoryFull(g)) =>
              /\ workerPc'[g] = "sampling"
              /\ HistoryFull(g)'
              /\ sampleIdx'[g] = sampleIdx[g]
              /\ pathsList'[g] = pathsList[g]]_vars

\* C10 witness: a worker is in the loop of _generateNewPath, every path is in
\* its trie, and it has just drawn again.
C10_Witness ==
    \E g \in Gpus :
        /\ workerPc[g] = "sampling"
        /\ HistoryFull(g)
        /\ Len(pathsList[g]) = Cardinality(PathSpace)
        /\ pathsList[g][Len(pathsList[g])] # PathWidthRatios(pathWidthIdx[g])

\* C11: a worker that is asked for no more samples than there are paths in
\* the candidate space, and whose sampler is fair, eventually returns having
\* recorded exactly that many paths.
C11_WorkerTerminates ==
    \A g \in GpuIds :
        (IF g \in Gpus
         THEN workerPc[g] = "sampling" /\ nSamplesPerModel[g] <= Cardinality(PathSpace)
         ELSE FALSE)
            ~> (IF g \in Gpus
                THEN workerPc[g] = "done" /\ Len(pathsList[g]) = nSamplesPerModel[g]
                ELSE FALSE)

\* C11 witness: a worker asked for as many samples as there are paths has
\* returned with all of them recorded.
C11_Witness ==
    \E g \in Gpus :
        /\ workerPc[g] = "done"
        /\ nSamplesPerModel[g] = Cardinality(PathSpace)
        /\ Len(pathsList[g]) = Cardinality(PathSpace)

\* C12: the weight snapshot of every device, the source model's own device
\* included, is a deep copy: an in-place update of the source model's
\* weights changes no snapshot, each still holds the weights it was taken from.
C12_SnapshotsDeepCopied ==
    \A g \in Gpus : modelStateDict[g].value = epochWeights

\* C13: the workers of a loss() call are built from the snapshot taken by the
\* last initNewEpoch (or the constructor), which holds the source's weights
\* at the time of that call, so all replicas start from the same weights.
C13_ReplicasInSync ==
    \A g, h \in Gpus :
        (replicaWeights[g] # -1 /\ replicaWeights[h] # -1) =>
            /\ replicaWeights[g] = epochWeights
            /\ replicaWeights[g] = replicaWeights[h]

\* the number of entries of the sequence seq that are for device g
EntriesFor(seq, g) == Cardinality({i \in DOMAIN seq : seq[i].gpu = g})

\* C14: a loss() call makes exactly one task per device of gpuIDs, a pool
\* process runs at most one task (so it is bound to one device for its whole
\* life), and processResults is called only when every worker has returned,
\* with one result per device.
C14_OneTaskPerDevice ==
    /\ lossPc = "idle" => results = <<>>
    /\ lossPc \in {"pool", "done"} =>
          /\ Len(poolArgs) = Len(gpuIDs)
          /\ \A g \in Gpus : EntriesFor(poolArgs, g) = 1
          /\ \A p \in Procs : Cardinality(tasksOf(p)) <= 1
    /\ lossPc = "pool" => results = <<>>
    /\ lossPc = "done" =>
          /\ \A g \in Gpus : workerPc[g] = "done" /\ procOf[g] # 0
          /\ Len(results) = Len(gpuIDs)
          /\ \A g \in Gpus : EntriesFor(results, g) = 1

\* C14 witness: a loss() call over two devices has returned, its two workers
\* having recorded paths in two different pool processes.
C14_Witness ==
    /\ lossPc = "done"
    /\ Len(gpuIDs) = 2
    /\ \A g \in Gpus : Len(pathsList[g]) > 0
    /\ \A g, h \in Gpus : g # h => procOf[g] # procOf[h]
    /\ Len(results) = 2

\* C15: once a worker has failed it stays failed (it is not run again), and
\* the loss() call never gets to processResults: no result is passed on,
\* whatever the other workers returned.
C15_WorkerFailureFailsLoss ==
    [][\A g \in Gpus :
          /\ workerPc[g] = "failed" => workerPc'[g] = "failed"
          /\ workerPc'[g] = "failed" => (lossPc' \in {"pool", "failed"} /\ results' = <<>>)]_vars

\* C15 witness: loss() has failed on the failure of one worker while another
\* worker had returned its result.
C15_Witness ==
    /\ lossPc = "failed"
    /\ results = <<>>
    /\ \E g, h \in Gpus :
          /\ workerPc[g] = "failed"
          /\ workerPc[h] = "done"
          /\ Len(pathsList[h]) > 0

C17_BaselineWidthValid ==
    \A j \in 1..Len(baselineWidth) :
        /\ Len(baselineWidth[j].idxList) = nLayers
        /\ \A k \in 1..nLayers :
              /\ baselineWidth[j].idxList[k] >= 0
              /\ baselineWidth[j].idxList[k] < nWidths(Net, optimization[k])

\* C17 witness: a model built with a partition, whose baselineWidth holds one
\* entry per width ratio and the 'Partition' entry, all of them applied.
C17_Witness ==
    /\ partition # <<>>
    /\ Len(baselineWidth) = NWidths + 1
    /\ baselineWidth[Len(baselineWidth)].key = partitionKey
    /\ call.op = "applyOnBaseline"
    /\ Len(call.results) = Len(baselineWidth)

\* the ratio r is in the width ratio list of every optimization layer
InEveryLayer(r) ==
    \A k \in 1..nLayers : r \in Range(widthRatioList[optimization[k]])

\* C18: buildHomogeneousWidthIdx fails exactly when a requested ratio is
\* missing from some optimization layer, and then returns nothing; otherwise
\* it returns one key per different requested ratio, and the entry of ratio
\* r, applied with setCurrWidthIdx, makes currWidthRatio() all r.
C18_HomogeneousWidthIdx ==
    /\ call.op = "buildHomogeneousWidthIdx" =>
          /\ call.flag <=> (\E i \in 1..Len(call.pre) : ~InEveryLayer(call.pre[i]))
          /\ call.flag => call.results = <<>>
          /\ ~call.flag =>
                /\ {call.results[j].key : j \in 1..Len(call.results)}
                      = {ratioKey(call.pre[i]) : i \in 1..Len(call.pre)}
                /\ Len(call.results) = Cardinality(Range(call.pre))
    /\ call.op = "setHomogeneous" =>
          BaseNet_currWidthRatio(Net) =
              [k \in 1..nLayers |-> call.results[call.block].key.ratio]

\* C18 witness: on a model with partition-injected widths, a list that
\* repeats one ratio gave a single key, and its entry has been applied with
\* at least one layer moved off its first index.
C18_Witness ==
    /\ call.op = "setHomogeneous"
    /\ partition # <<>>
    /\ Len(call.pre) = 2
    /\ call.pre[1] = call.pre[2]
    /\ Len(call.results) = 1
    /\ \E k \in 1..nLayers : currIdx[optimization[k]] # 0

(***************************************************************************)
(* Claims about FlopsLoss                                                  *)
(***************************************************************************)
\* forward returned with the pair (flopsList[i], flopsList[i + 1]) and the
\* prediction of that pair's line
UsesBracket(i) ==
    /\ flopsLossOut.raised = "none"
    /\ flopsLossOut.x0 = flopsLossIn.flopsList[i]
    /\ flopsLossOut.x1 = flopsLossIn.flopsList[i + 1]
    /\ flopsLossOut.expectedLoss =
          (flopsLossIn.linearLineParams[i].m * flopsLossIn.modelFlops)
              + flopsLossIn.linearLineParams[i].b

\* C19 as stated: for modelFlops equal to any breakpoint of the table,
\* expectedLoss is the prediction of the bracket that ends at that breakpoint
\* (x1 = modelFlops).
C19_BracketEndsAtBreakpoint ==
    flopsLossOut # <<>> =>
        \A i \in 1..Len(flopsLossIn.flopsList) :
            flopsLossIn.modelFlops = flopsLossIn.flopsList[i] =>
                /\ i > 1
                /\ UsesBracket(i - 1)
                /\ flopsLossOut.x1 = flopsLossIn.modelFlops

\* C19 amended: for modelFlops equal to a breakpoint other than the smallest,
\* expectedLoss is the prediction of the bracket that ends at that breakpoint
\* (x1 = modelFlops); for the smallest breakpoint it is the prediction of the
\* first bracket, which starts there (x0 = modelFlops).
C19_BracketAtBreakpoint ==
    flopsLossOut # <<>> =>
        \A i \in 1..Len(flopsLossIn.flopsList) :
            flopsLossIn.modelFlops = flopsLossIn.flopsList[i] =>
                IF i > 1
                THEN UsesBracket(i - 1) /\ flopsLossOut.x1 = flopsLossIn.modelFlops
                ELSE UsesBracket(1) /\ flopsLossOut.x0 = flopsLossIn.modelFlops

\* C19 witness: forward has been called at an inner breakpoint of a table
\* whose two lines around that breakpoint predict different losses.
C19_Witness ==
    /\ flopsLossOut # <<>>
    /\ Len(flopsLossIn.flopsList) >= 3
    /\ flopsLossIn.modelFlops = flopsLossIn.flopsList[2]
    /\ flopsLossOut.x1 = flopsLossIn.modelFlops
    /\ (flopsLossIn.linearLineParams[1].m * flopsLossIn.modelFlops)
           + flopsLossIn.linearLineParams[1].b
       # (flopsLossIn.linearLineParams[2].m * flopsLossIn.modelFlops)
           + flopsLossIn.linearLineParams[2].b

\* C20: for modelFlops below the smallest breakpoint, forward uses the first
\* two entries of the table and returns the loss dictionary, raising nothing.
C20_BelowSmallestBreakpoint ==
    (flopsLossOut # <<>> /\ flopsLossIn.modelFlops < flopsLossIn.flopsList[1]) =>
        /\ UsesBracket(1)
        /\ flopsLossOut.flopsIdx = 0
        /\ flopsLossOut.keys = lossKeys

\* C20 witness: forward has returned for a modelFlops below the smallest
\* breakpoint of a table of three breakpoints or more.
C20_Witness ==
    /\ flopsLossOut # <<>>
    /\ Len(flopsLossIn.flopsList) >= 3
    /\ flopsLossIn.modelFlops > 0
    /\ flopsLossIn.modelFlops < flopsLossIn.flopsList[1]
    /\ flopsLossOut.raised = "none"

\* the last breakpoint of the table
LastFlops == flopsLossIn.flopsList[Len(flopsLossIn.flopsList)]

\* C21 as stated: for modelFlops above the largest breakpoint, forward uses
\* the last two breakpoints of the table and returns the loss dictionary.
C21_AboveLargestExtrapolates ==
    (flopsLossOut # <<>> /\ flopsLossIn.modelFlops > LastFlops) =>
        /\ UsesBracket(Len(flopsLossIn.flopsList) - 1)
        /\ flopsLossOut.keys = lossKeys

\* C25: for modelFlops strictly above the smallest breakpoint and at most the
\* largest, the pair (x0, x1) is a pair of consecutive entries of the table,
\* x0 <= modelFlops <= x1, and the assertion does not fail.
C25_BracketConsecutive ==
    (/\ flopsLossOut # <<>>
     /\ flopsLossIn.flopsList[1] < flopsLossIn.modelFlops
     /\ flopsLossIn.modelFlops <= LastFlops) =>
        /\ flopsLossOut.raised = "none"
        /\ \E i \in 1..(Len(flopsLossIn.flopsList) - 1) : UsesBracket(i)
        /\ flopsLossOut.x0 <= flopsLossIn.modelFlops
        /\ flopsLossIn.modelFlops <= flopsLossOut.x1

\* C25 witness: forward has returned for a modelFlops strictly between the
\* second and the third breakpoint of a table.
C25_Witness ==
    /\ flopsLossOut # <<>>
    /\ Len(flopsLossIn.flopsList) >= 3
    /\ flopsLossIn.flopsList[2] < flopsLossIn.modelFlops
    /\ flopsLossIn.modelFlops < flopsLossIn.flopsList[3]
    /\ flopsLossOut.x0 = flopsLossIn.flopsList[2]
    /\ flopsLossOut.x1 = flopsLossIn.flopsList[3]

C27_IndexErrorChangesNothing ==
    [][\A idxList \in [1..nLayers -> IdxArgs] :
          (/\ SetCurrWidthIdxAny(idxList)
           /\ \E k \in 1..nLayers : Layer_idxOutOfRange(Net, optimization[k], idxList[k])) =>
              /\ call'.raised = "IndexError"
              /\ UNCHANGED <<currIdx, downsample, residualFunc>>]_vars

(***************************************************************************)
(* Claims about the training regimes                                       *)
(***************************************************************************)
\* number of slots of the partition part whose value is a
SlotCount(part, a) == Cardinality({k \in 1..Len(part) : part[k] = a})

\* C23 as stated: for every sampled pair and every alpha index a, the group
\* size that weights the sample's Total loss is the number of slots of the
\* partition whose value is a, whatever the order of the entries, so v2[a]
\* is the average over the samples of Total times that count.
C23_GroupSizeIsSlotCount ==
    (gradOut # <<>> /\ gradOut.gradSet) =>
        LET list == gradIn.lossDictsPartitionList
        IN  /\ \A i \in 1..Len(list), a \in AlphaIdx :
                   gradOut.groupsSize[i][a] = SlotCount(list[i].partition, a)
            /\ \A a \in AlphaIdx :
                   gradOut.v2Sum[a] =
                       SumOver([i \in 1..Len(list) |->
                                   list[i].Total * SlotCount(list[i].partition, a)], Len(list))

\* the length of the run of epochs without a new optimum that ends the history
RECURSIVE TrailingNotBest(_)
TrailingNotBest(h) ==
    IF h = <<>> \/ h[Len(h)] THEN 0 ELSE 1 + TrailingNotBest(SubSeq(h, 1, Len(h) - 1))

\* C26 as stated: the loop runs at least one epoch, its counter is 0 after
\* every epoch that is a new optimum, and it has ended after exactly
\* optimal_epochs consecutive epochs without a new optimum.
C26_StopsAfterOptimalEpochs ==
    /\ (isBestHistory # <<>> /\ isBestHistory[Len(isBestHistory)]) => nEpochsOptimum = 0
    /\ trainPc = "done" =>
           /\ epoch >= 1
           /\ TrailingNotBest(isBestHistory) = optimal_epochs

\* C30 as stated: for every nSamples >= 1 and a list of exactly nSamples
\* pairs, the call completes and records a loss variance.
C30_VarianceRecorded ==
    (gradOut # <<>> /\ Len(gradIn.lossDictsPartitionList) = gradIn.nSamples) =>
        /\ gradOut.raised = "none"
        /\ gradOut.recorded

(***************************************************************************)
(* Claims about the iterations of the workers                              *)
(***************************************************************************)
\* the number of paths in the results handed to processResults
RECURSIVE ResultsTotal(_)
ResultsTotal(k) == IF k = 0 THEN 0 ELSE ResultsTotal(k - 1) + Len(results[k].pathsList)

\* C24: every worker runs exactly its assigned number of iterations, never
\* more, each iteration recording one path; a worker that was assigned 0
\* returns an empty list; and when loss() has returned, the iterations of all
\* workers together, and the entries handed to processResults, are nSamples.
C24_IterationsSumToNSamples ==
    /\ \A g \in Gpus :
          /\ sampleIdx[g] <= nSamplesPerModel[g]
          /\ workerPc[g] \in {"sampling", "done"} => Len(pathsList[g]) = sampleIdx[g]
          /\ workerPc[g] = "done" => sampleIdx[g] = nSamplesPerModel[g]
          /\ (workerPc[g] = "done" /\ nSamplesPerModel[g] = 0) => pathsList[g] = <<>>
    /\ lossPc = "done" =>
          /\ SumValues(sampleIdx, Gpus) = nSamples
          /\ ResultsTotal(Len(results)) = nSamples

\* C24 witness: a loss() call for 3 samples over two devices has returned,
\* one worker having run 2 iterations and the other 1.
C24_Witness ==
    /\ lossPc = "done"
    /\ nSamples = 3
    /\ Len(gpuIDs) = 2
    /\ \E g, h \in Gpus : sampleIdx[g] = 2 /\ sampleIdx[h] = 1
    /\ ResultsTotal(Len(results)) = 3

C29_BaselineFlopsRatioOne ==
    partition = <<>> =>
        /\ call.op = "setCurrWidthIdx" =>
              /\ \A j \in 1..Len(baselineWidth) :
                     call.idxList = baselineWidth[j].idxList =>
                         BaseNet_countFlops(Net) = computedBaselineFlops[j].value
              /\ BaseNet_countFlops(Net) =
                     BaseNet_countFlops(BaseNet_setCurrWidthIdx(InitBlocks(<<>>), call.idxList))
        /\ call.op = "applyOnBaseline" =>
              \A j \in 1..Len(baselineWidth) :
                  call.results[j].value = computedBaselineFlops[j].value

\* C29 witness: the baseline FLOPs have been counted again, by
\* applyOnBaseline, from a configuration in which a temporary downsample is
\* switched on, and the model is back in that configuration.
C29_Witness ==
    /\ partition = <<>>
    /\ call.op = "applyOnBaseline"
    /\ \E b \in TempBlocks : downsample[b] # "None"
    /\ Len(call.results) = Len(baselineWidth)
    /\ call.pre \notin {baselineWidth[j].idxList : j \in 1..Len(baselineWidth)}

====
